---- MODULE Spec2Model ----
(***************************************************************************)
(* A model of src/router.js (class Router): a router that turns a          *)
(* multi-page site into a single-page application.                         *)
(*                                                                         *)
(* Strings that the code inspects character by character (route patterns   *)
(* and path names) are sequences of one-character strings.  The document   *)
(* is its title, the script elements of its head, and the links and script *)
(* elements of its body, in document order.  The browser's session history *)
(* is a sequence of entries and the index of the current one.              *)
(***************************************************************************)
EXTENDS Integers, Sequences, FiniteSets, TLC

VARIABLES
    options,         \* this.options: [enabled, routes]
    constructed,     \* the constructor has run
    snapshotTaken,   \* this.scriptsStore and this.initialScripts are defined
    scriptsStore,    \* this.scriptsStore
    initialScripts,  \* this.initialScripts
    onpopstate,      \* window.onpopstate is the router's handler
    head,            \* script elements of document.head, in order
    body,            \* links and script elements of document.body, in order
    title,           \* document.title
    hist,            \* session history entries
    hidx,            \* index of the current session history entry
    navs,            \* the navigate() calls made so far, in call order, each with
                     \* the scripts it inserted or rebuilt, in the order it did
    running,         \* the navigate() call whose promise callback is executing (0: none)
    console,         \* number of console.error calls
    uncaught,        \* exceptions that escaped to the event loop
    mRoutes,         \* RouteMatcher harness: routes argument of checkRoutes
    mLink,           \* RouteMatcher harness: the link checkRoutes is applied to
    mResult          \* RouteMatcher harness: outcome of the last checkRoutes call

vars == <<options, constructed, snapshotTaken, scriptsStore, initialScripts,
          onpopstate, head, body, title, hist, hidx, navs, running, console,
          uncaught, mRoutes, mLink, mResult>>

routerVars == <<options, constructed, snapshotTaken, scriptsStore, initialScripts,
                onpopstate, head, body, title, hist, hidx, navs, running, console,
                uncaught>>

matchVars == <<mRoutes, mLink, mResult>>

----------------------------------------------------------------------------
(* Bounds *)

\* navigate() calls in one behaviour
MaxNavs == 2

\* longest route pattern and path name (after its leading "/") that the
\* RouteMatcher harness draws
MaxPatLen == 3
MaxPathLen == 2

----------------------------------------------------------------------------
(* Characters, route patterns, path names *)

\* the characters the harness draws path names and route patterns from
Alphabet == {"h", "H", "."}
PatAlphabet == {"h", ".", "/", "*", "("}

\* 'i' flag of the RegExp: characters compare after case folding
Lower(c) ==
    CASE c = "H" -> "h"
      [] c = "A" -> "a"
      [] OTHER -> c

SeqsUpTo(S, n) == UNION {[1..k -> S] : k \in 0..n}

\* String.prototype.replace(c, '') with a string pattern: removes the first occurrence only
RECURSIVE RemoveFirst(_, _)
RemoveFirst(s, c) ==
    IF s = <<>> THEN <<>>
    ELSE IF Head(s) = c THEN Tail(s)
    ELSE <<Head(s)>> \o RemoveFirst(Tail(s), c)

\* new RegExp(r, 'i') throws a SyntaxError: an unterminated group, or a
\* quantifier with nothing to repeat
InvalidRegExp(r) ==
    \E i \in 1..Len(r) :
        \/ r[i] = "("
        \/ r[i] = "*" /\ (i = 1 \/ r[i-1] = "*")

\* one pattern character against one subject character: '.' matches any
\* character, every other character matches itself, ignoring case
AtomMatches(c, d) == c = "." \/ Lower(c) = Lower(d)

\* the regular expression r, from position i on, matches s starting at position j
RECURSIVE MatchHere(_, _, _, _)
MatchHere(r, i, s, j) ==
    IF i > Len(r) THEN TRUE
    ELSE IF i < Len(r) /\ r[i+1] = "*"
    THEN \E k \in 0..(Len(s) - j + 1) :
            /\ \A t \in j..(j + k - 1) : AtomMatches(r[i], s[t])
            /\ MatchHere(r, i + 2, s, j + k)
    ELSE /\ j <= Len(s)
         /\ AtomMatches(r[i], s[j])
         /\ MatchHere(r, i + 1, s, j + 1)

\* RegExp.prototype.test without anchors: a match may start anywhere
RegExpTest(r, s) == \E j \in 1..(Len(s) + 1) : MatchHere(r, 1, s, j)

\* the callback of routes.findIndex for one route
RouteRegExp(route) == RemoveFirst(route, "*")

\* routes.findIndex(...): index of the first route whose expression matches
\* the path, 0 when there is none (JavaScript's -1).  Routes after the first
\* match are not evaluated.
RECURSIVE FindIndexFrom(_, _, _)
FindIndexFrom(routes, k, path) ==
    IF k > Len(routes) THEN 0
    ELSE IF RegExpTest(RouteRegExp(routes[k]), path) THEN k
    ELSE FindIndexFrom(routes, k + 1, path)

\* findIndex throws when it reaches a route whose expression is invalid
\* before any route has matched
FindIndexThrows(routes, path) ==
    \E k \in 1..Len(routes) :
        /\ InvalidRegExp(RouteRegExp(routes[k]))
        /\ \A j \in 1..(k - 1) :
              /\ ~InvalidRegExp(RouteRegExp(routes[j]))
              /\ ~RegExpTest(RouteRegExp(routes[j]), path)

\* a checkRoutes without the test of the opt-out marker
checkRoutesIgnoringOptOut(link, routes) ==
    IF FindIndexThrows(routes, link.pathname) THEN "throw"
    ELSE IF FindIndexFrom(routes, 1, link.pathname) # 0 THEN "true"
    ELSE "false"

\* a checkRoutes that tests document.location.pathname instead of the link's
\* own path name
checkRoutesByLocation(link, routes) ==
    IF FindIndexThrows(routes, hist[hidx].url) THEN "throw"
    ELSE IF FindIndexFrom(routes, 1, hist[hidx].url) # 0 /\ ~link.noSpa THEN "true"
    ELSE "false"

\* checkRoutes.apply(link, [routes]): "throw", "true" or "false".
\* `this` is the link, so this.pathname is the link's own path name.
checkRoutes(link, routes) ==
    IF FindIndexThrows(routes, link.pathname) THEN "throw"
    ELSE IF FindIndexFrom(routes, 1, link.pathname) # 0 /\ ~link.noSpa THEN "true"
    ELSE "false"

----------------------------------------------------------------------------
(* RouteMatcher harness: checkRoutes as a pure function of its inputs *)

\* a link element, as far as checkRoutes and enableSPA read it
Link(path, optOut) ==
    [tag |-> "A", parent |-> "BODY", pathname |-> path, noSpa |-> optOut,
     listeners |-> 0, src |-> "", text |-> "", type |-> "", doc |-> 0, k |-> 0,
     fresh |-> FALSE]

HarnessPaths == {<<"/">> \o s : s \in SeqsUpTo(Alphabet, MaxPathLen)}
HarnessPatterns == SeqsUpTo(PatAlphabet, MaxPatLen)

MatchIdle ==
    /\ mRoutes = <<>>
    /\ mLink = Link(<<"/">>, FALSE)
    /\ mResult = "none"

\* apply checkRoutes to the drawn link and routes
MCheckRoutes ==
    /\ mResult = "none"
    /\ mResult' = checkRoutes(mLink, mRoutes)
    /\ UNCHANGED <<mRoutes, mLink>>

\* the same link, with the opt-out marker toggled, checked again
MToggleOptOut ==
    /\ mResult # "none"
    /\ mLink' = [mLink EXCEPT !.noSpa = ~mLink.noSpa]
    /\ mResult' = "none"
    /\ UNCHANGED mRoutes

----------------------------------------------------------------------------
(* The site: path names and the pages the server holds *)

PIndex == <<"/", "i", ".", "h">>
PBare == <<"/", "e", ".", "h">>
PA == <<"/", "a", ".", "h">>
PB == <<"/", "b", ".", "H">>
PX == <<"/", "x", "h">>
PP == <<"/", "b", ".", "p">>
PM == <<"/", "m", ".", "h">>

\* a script element: parent is the tag name of its parent node
Script(parentTag, source, content, scriptType) ==
    [tag |-> "SCRIPT", parent |-> parentTag, pathname |-> <<>>, noSpa |-> FALSE,
     listeners |-> 0, src |-> source, text |-> content, type |-> scriptType,
     doc |-> 0, k |-> 0, fresh |-> FALSE]

\* a text node, kept only to tell the body of an undecodable response apart
TextNode(content) ==
    [tag |-> "#text", parent |-> "BODY", pathname |-> <<>>, noSpa |-> FALSE,
     listeners |-> 0, src |-> "", text |-> content, type |-> "", doc |-> 0,
     k |-> 0, fresh |-> FALSE]

\* the two entry pages of the site, one with and one without links
DocLinks ==
    [title |-> "Home",
     head |-> <<Script("HEAD", "lib.js", "", "")>>,
     body |-> <<Link(PA, FALSE), Link(PP, FALSE), Script("BODY", "", "i()", "")>>]

DocBare ==
    [title |-> "Home",
     head |-> <<Script("HEAD", "lib.js", "", "")>>,
     body |-> <<>>]

PageA ==
    [title |-> "A",
     head |-> <<Script("HEAD", "lib.js", "", ""), Script("HEAD", "app.js", "", "")>>,
     body |-> <<Link(PB, FALSE), Script("BODY", "", "a()", "module"), Link(PB, FALSE)>>]

PageB ==
    [title |-> "B",
     head |-> <<Script("HEAD", "", "b()", ""), Script("HEAD", "lib.js", "lib()", "")>>,
     body |-> <<Link(PA, TRUE), Link(PX, FALSE), Script("DIV", "b.js", "", "")>>]

\* what DOMParser makes of String(response), "[object Response]"
PageUndecoded ==
    [title |-> "", head |-> <<>>, body |-> <<TextNode("[object Response]")>>]

\* the paths the server answers with status 200, and the page at each;
\* every other path gets a 404 response, whose text is an error page
ServedPaths == {PIndex, PBare, PA, PB}
Site(path) ==
    CASE path = PIndex -> DocLinks
      [] path = PBare -> DocBare
      [] path = PA -> PageA
      [] path = PB -> PageB
      [] OTHER -> [title |-> "Not Found", head |-> <<>>, body |-> <<TextNode("404")>>]

\* paths the application passes to navigate() as strings
CallPaths == {PA, PB, PM}

\* route lists a Router is constructed with: "*.h", and "/a*" followed by
\* the malformed "*("
RouteLists ==
    { << <<"*", ".", "h">> >>,
      << <<"/", "a", "*">>, <<"*", "(">> >> }

\* history.state of an entry the router did not push
NullState == <<"null">>

----------------------------------------------------------------------------
(* DOM helpers *)

\* the elements of a parsed page, stamped with the document they were
\* parsed into (n) and their position, which together identify an element
Stamp(elems, n, offset) ==
    [i \in 1..Len(elems) |-> [elems[i] EXCEPT !.doc = n, !.k = offset + i]]

\* parseHTML: the Document parsed from a page
parseHTML(page, n) ==
    [title |-> page.title,
     head |-> Stamp(page.head, n, 0),
     body |-> Stamp(page.body, n, Len(page.head))]

RECURSIVE SelectSeq2(_, _)
SelectSeq2(s, keep) ==
    IF s = <<>> THEN <<>>
    ELSE IF Head(s) \in keep THEN <<Head(s)>> \o SelectSeq2(Tail(s), keep)
    ELSE SelectSeq2(Tail(s), keep)

Range(s) == {s[i] : i \in 1..Len(s)}

\* s without the elements of the set gone
Without(s, gone) == SelectSeq2(s, Range(s) \ gone)

\* document.scripts: the script elements of head and body, in document order
DocScripts(h, b) == h \o SelectSeq2(b, {e \in Range(b) : e.tag = "SCRIPT"})

\* a pushState whose state payload is the path of the page being left
PushedHistStaleState(stateUrl, t, url) ==
    SubSeq(hist, 1, hidx) \o <<[url |-> url, state |-> hist[hidx].url, title |-> t]>>

\* history.pushState(state, title, url): drops the entries after the current
\* one and appends the new entry, which becomes current
PushedHist(stateUrl, t, url) ==
    SubSeq(hist, 1, hidx) \o <<[url |-> url, state |-> stateUrl, title |-> t]>>

\* document.location.pathname
Location == hist[hidx].url

----------------------------------------------------------------------------
(* Router methods *)

\* enableSPA throws when checkRoutes throws for some link: filter runs over
\* all links before map attaches any listener
enableSPAThrows(b, routes) ==
    \E i \in 1..Len(b) : b[i].tag = "A" /\ checkRoutes(b[i], routes) = "throw"

\* an enableSPA that attaches no listener
enableSPASkipped(b, routes) == b

\* enableSPA: one more click listener on every link checkRoutes accepts
enableSPA(b, routes) ==
    [i \in 1..Len(b) |->
        IF b[i].tag = "A" /\ checkRoutes(b[i], routes) = "true"
        THEN [b[i] EXCEPT !.listeners = @ + 1]
        ELSE b[i]]

\* isNotInitialScript
isNotInitialScript(sc, initial) ==
    \/ ~(\E i \in 1..Len(initial) : initial[i].src = sc.src)
    \/ ~(\E i \in 1..Len(initial) : initial[i].text = sc.text)

\* a clear that removes nothing
clearNothing(elems, store) == elems

\* clear: remove() on every element of scriptsStore; the store keeps them
clear(elems, store) == Without(elems, Range(store))

\* a loadHeadScripts that appends the script without recording it
loadHeadScriptsUnrecorded(d, sc, initial) ==
    IF isNotInitialScript(sc, initial)
    THEN [d EXCEPT !.head = Append(Without(@, {sc}), sc)]
    ELSE d

\* loadHeadScripts on the DOM state d = [store, head, body, log]; log lists
\* the scripts inserted or rebuilt so far, in the order it happened
loadHeadScripts(d, sc, initial) ==
    IF isNotInitialScript(sc, initial)
    THEN [d EXCEPT !.store = Append(@, sc),
                   !.head = Append(Without(@, {sc}), sc),
                   !.log = Append(@, sc)]
    ELSE d

\* the element loadBodyScripts creates from $sc
NewScriptFrom(sc) ==
    [sc EXCEPT !.fresh = TRUE,
               !.type = IF sc.type # "" THEN sc.type ELSE "text/javascript",
               !.text = IF sc.src # "" THEN "" ELSE sc.text]

\* loadBodyScripts: the new element takes the place of $sc
loadBodyScripts(d, sc) ==
    [d EXCEPT !.body = [i \in 1..Len(@) |-> IF @[i] = sc THEN NewScriptFrom(sc) ELSE @[i]],
              !.log = Append(@, sc)]

\* runScripts: each script in turn, dispatched on its parent's tag name
RECURSIVE runScripts(_, _, _)
runScripts(d, scripts, initial) ==
    IF scripts = <<>> THEN d
    ELSE LET sc == Head(scripts)
             d2 == CASE sc.parent = "HEAD" -> loadHeadScripts(d, sc, initial)
                     [] sc.parent = "BODY" -> loadBodyScripts(d, sc)
                     [] OTHER -> d
         IN  runScripts(d2, Tail(scripts), initial)

\* a getPage that does not test response.ok: any response resolves
getPageResolvesAnyResponse(out) == out \in {"ok", "decode", "http"}

\* getPage: TRUE when the promise resolves (with the text, or with the
\* response itself when decoding fails), FALSE when it rejects
getPageResolves(out) == out \in {"ok", "decode"}

\* the page the then-callback of navigate parses
PageOf(nav) == IF nav.out = "decode" THEN PageUndecoded ELSE Site(nav.url)

\* the controller state that a position in navigate corresponds to
NavigationState(pc) ==
    CASE pc = "fetch" -> "Fetching"
      [] pc \in {"clear", "loadHTML"} -> "Swapping"
      [] pc = "runScripts" -> "ExecutingScripts"
      [] pc \in {"enableSPA", "pushState"} -> "Committed"
      [] pc = "catch" -> "Failed"
      [] OTHER -> "Idle"

\* move navigation n to position pc, recording the controller state
Goto(n, pc) ==
    [navs EXCEPT ![n].pc = pc,
                 ![n].trail = IF NavigationState(pc) = NavigationState(navs[n].pc)
                              THEN @ ELSE Append(@, NavigationState(pc))]

NewNav(source, url) ==
    [src |-> source, url |-> url, pc |-> "fetch", out |-> "pending", pushed |-> 0,
     trail |-> <<"Idle", "Fetching">>, effects |-> <<>>]

----------------------------------------------------------------------------
(* Initial state: a loaded document, a Router about to be constructed *)

RouterInit ==
    /\ options \in [enabled : BOOLEAN, routes : RouteLists]
    /\ constructed = FALSE
    /\ snapshotTaken = FALSE
    /\ scriptsStore = <<>>
    /\ initialScripts = <<>>
    /\ onpopstate = FALSE
    /\ \E entry \in {PIndex, PBare} :
          /\ head = Site(entry).head
          /\ body = Site(entry).body
          /\ title = Site(entry).title
          /\ hist = <<[url |-> entry, state |-> NullState, title |-> Site(entry).title]>>
    /\ hidx = 1
    /\ navs = <<>>
    /\ running = 0
    /\ console = 0
    /\ uncaught = {}

Init == RouterInit /\ MatchIdle

----------------------------------------------------------------------------
(* Actions *)

\* a constructor that initializes whatever options.enabled says
isEnabledIgnored(opts) == TRUE

\* the constructor's test: if (this.options.enabled)
isEnabled(opts) == opts.enabled

\* new Router(options): constructor, initialize, addRouteListener, enableSPA
Construct ==
    /\ ~constructed
    /\ constructed' = TRUE
    /\ IF isEnabled(options)
       THEN /\ snapshotTaken' = TRUE
            /\ scriptsStore' = <<>>
            /\ initialScripts' = DocScripts(head, body)
            /\ onpopstate' = TRUE
            /\ IF enableSPAThrows(body, options.routes)
               THEN /\ uncaught' = uncaught \cup {"constructor"}
                    /\ UNCHANGED <<body, hist, hidx>>
               ELSE /\ body' = enableSPA(body, options.routes)
                    /\ hist' = PushedHist(Location, title, Location)
                    /\ hidx' = hidx + 1
                    /\ UNCHANGED uncaught
       ELSE UNCHANGED <<snapshotTaken, scriptsStore, initialScripts, onpopstate,
                        body, hist, hidx, uncaught>>
    /\ UNCHANGED <<options, head, title, navs, running, console, matchVars>>

\* navigate(url), up to the fetch: url.target && url.preventDefault(); getUrl
Navigate(source, url, times) ==
    /\ Len(navs) + times <= MaxNavs
    /\ navs' = navs \o [j \in 1..times |-> NewNav(source, url)]

\* the application calls navigate with a path string
NavigateCall(p) ==
    /\ constructed
    /\ "constructor" \notin uncaught
    /\ running = 0
    /\ Navigate("string", p, 1)
    /\ UNCHANGED <<options, constructed, snapshotTaken, scriptsStore, initialScripts,
                   onpopstate, head, body, title, hist, hidx, running, console,
                   uncaught, matchVars>>

\* the user clicks link i: each click listener calls navigate with the event
Click(i) ==
    /\ running = 0
    /\ body[i].tag = "A"
    /\ body[i].listeners > 0
    /\ Navigate("click", body[i].pathname, body[i].listeners)
    /\ UNCHANGED <<options, constructed, snapshotTaken, scriptsStore, initialScripts,
                   onpopstate, head, body, title, hist, hidx, running, console,
                   uncaught, matchVars>>

\* the user goes back or forward to entry j; the browser fires popstate with
\* that entry's state: event => this.navigate(event.state.url)
PopState(j) ==
    /\ running = 0
    /\ j # hidx
    /\ hidx' = j
    /\ IF ~onpopstate
       THEN UNCHANGED <<navs, uncaught>>
       ELSE IF hist[j].state = NullState
       THEN /\ uncaught' = uncaught \cup {"popstate"}
            /\ UNCHANGED navs
       ELSE /\ Navigate("popstate", hist[j].state, 1)
            /\ UNCHANGED uncaught
    /\ UNCHANGED <<options, constructed, snapshotTaken, scriptsStore, initialScripts,
                   onpopstate, head, body, title, hist, running, console, matchVars>>

\* the fetch of navigation n settles with outcome out; getPage resolves or
\* rejects and the matching callback of navigate starts
FetchSettle(n, out) ==
    /\ running = 0
    /\ navs[n].pc = "fetch"
    /\ out \in {"ok", "decode"} => navs[n].url \in ServedPaths
    /\ out = "http" => navs[n].url \notin ServedPaths
    /\ LET settled == [navs EXCEPT ![n].out = out]
           next == IF getPageResolves(out) THEN "clear" ELSE "catch"
       IN  navs' = [settled EXCEPT ![n].pc = next,
                                   ![n].trail = Append(@, NavigationState(next))]
    /\ running' = n
    /\ UNCHANGED <<options, constructed, snapshotTaken, scriptsStore, initialScripts,
                   onpopstate, head, body, title, hist, hidx, console, uncaught,
                   matchVars>>

\* this.clear(); throws when scriptsStore is undefined
Clear(n) ==
    /\ running = n
    /\ navs[n].pc = "clear"
    /\ IF snapshotTaken
       THEN /\ head' = clear(head, scriptsStore)
            /\ body' = clear(body, scriptsStore)
            /\ navs' = Goto(n, "loadHTML")
       ELSE /\ navs' = Goto(n, "catch")
            /\ UNCHANGED <<head, body>>
    /\ UNCHANGED <<options, constructed, snapshotTaken, scriptsStore, initialScripts,
                   onpopstate, title, hist, hidx, running, console, uncaught,
                   matchVars>>

\* .loadHTML($html)
LoadHTML(n) ==
    /\ running = n
    /\ navs[n].pc = "loadHTML"
    /\ LET html == parseHTML(PageOf(navs[n]), n)
       IN  /\ body' = html.body
           /\ title' = html.title
    /\ navs' = Goto(n, "runScripts")
    /\ UNCHANGED <<options, constructed, snapshotTaken, scriptsStore, initialScripts,
                   onpopstate, head, hist, hidx, running, console, uncaught,
                   matchVars>>

\* .runScripts(...document.scripts, ...$html.scripts); the body of $html is
\* in the live document by now, so $html.scripts holds its head scripts
RunScripts(n) ==
    /\ running = n
    /\ navs[n].pc = "runScripts"
    /\ LET html == parseHTML(PageOf(navs[n]), n)
           d == runScripts([store |-> scriptsStore, head |-> head, body |-> body,
                            log |-> <<>>],
                           DocScripts(head, body) \o html.head, initialScripts)
       IN  /\ scriptsStore' = d.store
           /\ head' = d.head
           /\ body' = d.body
           /\ navs' = [Goto(n, "enableSPA") EXCEPT ![n].effects = d.log]
    /\ UNCHANGED <<options, constructed, snapshotTaken, initialScripts, onpopstate,
                   title, hist, hidx, running, console, uncaught, matchVars>>

\* .enableSPA()
EnableSPA(n) ==
    /\ running = n
    /\ navs[n].pc = "enableSPA"
    /\ IF enableSPAThrows(body, options.routes)
       THEN /\ navs' = Goto(n, "catch")
            /\ UNCHANGED body
       ELSE /\ navs' = Goto(n, "pushState")
            /\ body' = enableSPA(body, options.routes)
    /\ UNCHANGED <<options, constructed, snapshotTaken, scriptsStore, initialScripts,
                   onpopstate, head, title, hist, hidx, running, console, uncaught,
                   matchVars>>

\* history.pushState({url}, document.title, url); the callback returns
PushState(n) ==
    /\ running = n
    /\ navs[n].pc = "pushState"
    /\ hist' = PushedHist(navs[n].url, title, navs[n].url)
    /\ hidx' = hidx + 1
    /\ navs' = [Goto(n, "done") EXCEPT ![n].pushed = @ + 1]
    /\ running' = 0
    /\ UNCHANGED <<options, constructed, snapshotTaken, scriptsStore, initialScripts,
                   onpopstate, head, body, title, console, uncaught, matchVars>>

\* a failure handler after which the controller stays busy
CatchStaysBusy(n) ==
    /\ running = n
    /\ navs[n].pc = "catch"
    /\ console' = console + 1
    /\ navs' = Goto(n, "failed")
    /\ UNCHANGED <<options, constructed, snapshotTaken, scriptsStore, initialScripts,
                   onpopstate, head, body, title, hist, hidx, running, uncaught,
                   matchVars>>

\* a navigate without the .catch: the rejection is reported to nobody
CatchMissing(n) ==
    /\ running = n
    /\ navs[n].pc = "catch"
    /\ uncaught' = uncaught \cup {"unhandledrejection"}
    /\ navs' = Goto(n, "failed")
    /\ running' = 0
    /\ UNCHANGED <<options, constructed, snapshotTaken, scriptsStore, initialScripts,
                   onpopstate, head, body, title, hist, hidx, console, matchVars>>

\* .catch(error => console.error(...))
Catch(n) ==
    /\ running = n
    /\ navs[n].pc = "catch"
    /\ console' = console + 1
    /\ navs' = Goto(n, "failed")
    /\ running' = 0
    /\ UNCHANGED <<options, constructed, snapshotTaken, scriptsStore, initialScripts,
                   onpopstate, head, body, title, hist, hidx, uncaught, matchVars>>

Next ==
    \/ Construct
    \/ \E p \in CallPaths : NavigateCall(p)
    \/ \E i \in 1..Len(body) : Click(i)
    \/ \E j \in 1..Len(hist) : PopState(j)
    \/ \E n \in 1..Len(navs), out \in {"ok", "decode", "http", "neterr"} : FetchSettle(n, out)
    \/ \E n \in 1..Len(navs) : Clear(n)
    \/ \E n \in 1..Len(navs) : LoadHTML(n)
    \/ \E n \in 1..Len(navs) : RunScripts(n)
    \/ \E n \in 1..Len(navs) : EnableSPA(n)
    \/ \E n \in 1..Len(navs) : PushState(n)
    \/ \E n \in 1..Len(navs) : Catch(n)

Spec == Init /\ [][Next]_vars

\* the steps the event loop owes navigation n: the settling of its fetch and
\* the callbacks of its promise chain
NavigationStep(n) ==
    /\ n \in 1..Len(navs)
    /\ \/ \E out \in {"ok", "decode", "http", "neterr"} : FetchSettle(n, out)
       \/ Clear(n)
       \/ LoadHTML(n)
       \/ RunScripts(n)
       \/ EnableSPA(n)
       \/ PushState(n)
       \/ Catch(n)

\* navigations requested by calls of navigate alone, from the entry page
\* without links; clicks and popstate events reach navigate the same way
InitBare == Init /\ body = DocBare.body

NextCalls ==
    \/ Construct
    \/ \E p \in CallPaths : NavigateCall(p)
    \/ \E n \in 1..Len(navs), out \in {"ok", "decode", "http", "neterr"} : FetchSettle(n, out)
    \/ \E n \in 1..Len(navs) : Clear(n)
    \/ \E n \in 1..Len(navs) : LoadHTML(n)
    \/ \E n \in 1..Len(navs) : RunScripts(n)
    \/ \E n \in 1..Len(navs) : EnableSPA(n)
    \/ \E n \in 1..Len(navs) : PushState(n)
    \/ \E n \in 1..Len(navs) : Catch(n)

\* every fetch settles, and a settled promise's callbacks are run
SpecFair ==
    /\ InitBare
    /\ [][NextCalls]_vars
    /\ \A n \in 1..MaxNavs : WF_vars(NavigationStep(n))

----------------------------------------------------------------------------
(* RouteMatcher harness specification *)

RouterParked ==
    /\ options = [enabled |-> FALSE, routes |-> <<>>]
    /\ constructed = FALSE
    /\ snapshotTaken = FALSE
    /\ scriptsStore = <<>>
    /\ initialScripts = <<>>
    /\ onpopstate = FALSE
    /\ head = <<>>
    /\ body = <<>>
    /\ title = ""
    /\ hist = <<[url |-> PIndex, state |-> NullState, title |-> ""]>>
    /\ hidx = 1
    /\ navs = <<>>
    /\ running = 0
    /\ console = 0
    /\ uncaught = {}

MatchInit ==
    /\ RouterParked
    /\ mRoutes \in {<<p>> : p \in HarnessPatterns}
    /\ mLink \in {Link(s, o) : s \in HarnessPaths, o \in BOOLEAN}
    /\ mResult = "none"

MatchNext ==
    \/ MCheckRoutes /\ UNCHANGED routerVars
    \/ MToggleOptOut /\ UNCHANGED routerVars

SpecMatch == MatchInit /\ [][MatchNext]_vars

----------------------------------------------------------------------------
(* Properties *)

Finished(nav) == nav.pc \in {"done", "failed"}

\* the fetch of the navigation failed: network error or non-2xx status
FetchFailed(nav) == nav.out \in {"http", "neterr"}

Links == {i \in 1..Len(body) : body[i].tag = "A"}

\* C1: every navigate request of an enabled router whose fetch succeeds goes
\* Idle, Fetching, Swapping, ExecutingScripts, Committed, Idle, renders the
\* fetched page's title, and pushes exactly one history entry.
C1_SucceededFetchCommits ==
    \A n \in 1..Len(navs) :
        (options.enabled /\ navs[n].out = "ok" /\ Finished(navs[n])) =>
            /\ navs[n].trail = <<"Idle", "Fetching", "Swapping", "ExecutingScripts",
                                 "Committed", "Idle">>
            /\ navs[n].pushed = 1

\* C2: a navigation whose fetch fails goes Idle, Fetching, Failed, Idle; none
\* of its steps changes the live head or body, the title, the injected
\* scripts or the history, it pushes nothing, and its error is logged once.
C2_FailedFetchChangesNothing ==
    [][\A n \in 1..Len(navs) :
          (FetchFailed(navs'[n]) /\ navs'[n] # navs[n]) =>
              /\ UNCHANGED <<head, body, title, scriptsStore, hist, hidx>>
              /\ navs'[n].pc \in {"catch", "failed"}
              /\ navs'[n].pushed = 0
              /\ navs'[n].pc = "catch" => console' = console
              /\ navs'[n].pc = "failed" =>
                    /\ console' = console + 1
                    /\ navs'[n].trail = <<"Idle", "Fetching", "Failed", "Idle">>]_vars

\* C2 witness: a fetch answered 404 has been reported after an earlier
\* navigation had rendered another page and pushed its entry
C2_Witness ==
    \E n \in 1..Len(navs), m \in 1..Len(navs) :
        /\ navs[n].out = "http"
        /\ navs[n].pc = "failed"
        /\ navs[m].pc = "done"
        /\ title # "Home"
        /\ console = 1

\* C3: a navigation started by a popstate event pushes no history entry.
C3_PopStateDoesNotPush ==
    \A n \in 1..Len(navs) : navs[n].src = "popstate" => navs[n].pushed = 0

\* C4: a popstate event whose state has no usable url never raises an
\* unhandled failure.
C4_PopStateGuarded == "popstate" \notin uncaught

\* C5: a Router constructed with enabled false attaches no popstate handler
\* and no click listener, takes no script snapshot and leaves the history
\* stack as it was before construction, whatever happens afterwards.
C5_DisabledIsInert ==
    (constructed /\ ~options.enabled) =>
        /\ ~onpopstate
        /\ ~snapshotTaken
        /\ initialScripts = <<>>
        /\ \A i \in Links : body[i].listeners = 0
        /\ Len(hist) = 1
        /\ hist[1].state = NullState

\* C5 witness: a disabled router whose navigate was called and whose fetch
\* succeeded
C5_Witness ==
    /\ constructed
    /\ ~options.enabled
    /\ \E n \in 1..Len(navs) : navs[n].out = "ok" /\ Finished(navs[n])

\* some route matches the path; no route before it is malformed
RouteMatches(path) ==
    /\ ~FindIndexThrows(options.routes, path)
    /\ FindIndexFrom(options.routes, 1, path) # 0

\* enableSPA has run to its end over the document link i belongs to
WiringRan(i) ==
    IF body[i].doc = 0
    THEN constructed /\ options.enabled /\ "constructor" \notin uncaught
    ELSE navs[body[i].doc].pc \in {"pushState", "done"}

\* C6: a link carrying the opt-out marker is never eligible and never has a
\* click listener, whatever the routes are and however often links are wired.
C6_OptOutNeverWired ==
    \A i \in Links :
        body[i].noSpa =>
            /\ body[i].listeners = 0
            /\ checkRoutes(body[i], options.routes) # "true"

\* C6 witness: link wiring has been re-run by a navigation over a document
\* that holds an opt-out link whose path a route matches, next to a wired link
C6_Witness ==
    \E i \in Links, j \in Links :
        /\ body[i].noSpa
        /\ RouteMatches(body[i].pathname)
        /\ body[i].doc # 0
        /\ WiringRan(i)
        /\ body[j].listeners > 0

\* C8, as claimed: two links of the same document that both lack the opt-out
\* marker always have the same eligibility.
C8_SameEligibilityInDocument ==
    running = 0 =>
        \A i \in Links, j \in Links :
            (~body[i].noSpa /\ ~body[j].noSpa) =>
                ((body[i].listeners > 0) <=> (body[j].listeners > 0))

\* C8, amended: patterns are matched against the link's own path name: a
\* link has a click listener only if a route matches its own path, it has one
\* if wiring ran over its document, a route matches its path and it does not
\* opt out, and so links without opt-out that share a path share eligibility.
C8_OwnPathDecides ==
    /\ \A i \in Links :
          /\ body[i].listeners > 0 => (RouteMatches(body[i].pathname) /\ ~body[i].noSpa)
          /\ (WiringRan(i) /\ RouteMatches(body[i].pathname) /\ ~body[i].noSpa) =>
                body[i].listeners > 0
    /\ \A i \in Links, j \in Links :
          (~body[i].noSpa /\ ~body[j].noSpa /\ body[i].pathname = body[j].pathname) =>
              ((body[i].listeners > 0) <=> (body[j].listeners > 0))

\* C8 witness: wiring ran over a document whose own path a route matches and
\* left a wired and an unwired link in it, neither opting out
C8_Witness ==
    /\ running = 0
    /\ RouteMatches(Location)
    /\ \E i \in Links, j \in Links :
          /\ WiringRan(i)
          /\ ~body[i].noSpa /\ ~body[j].noSpa
          /\ body[i].listeners > 0
          /\ body[j].listeners = 0

\* the pattern holds exactly one wildcard
OneWildcard(p) == Cardinality({i \in 1..Len(p) : p[i] = "*"}) = 1

\* s contains lit as a substring, ignoring case
ContainsLiteral(s, lit) ==
    \E j \in 0..(Len(s) - Len(lit)) :
        \A t \in 1..Len(lit) : Lower(s[j + t]) = Lower(lit[t])

\* C7: for a pattern with one wildcard, a link without opt-out marker is
\* eligible if and only if its path contains the rest of the pattern as a
\* literal substring, ignoring case.
C7_LiteralSubstring ==
    (mResult # "none" /\ OneWildcard(mRoutes[1]) /\ ~mLink.noSpa) =>
        ((mResult = "true") <=>
            ContainsLiteral(mLink.pathname, RemoveFirst(mRoutes[1], "*")))

\* the head scripts of the boot-time snapshot, in order
InitialHeadScripts ==
    SelectSeq2(initialScripts, {e \in Range(initialScripts) : e.parent = "HEAD"})

\* C9: right after clear, the live head holds no script a navigation
\* injected, it holds every head script of the boot-time snapshot, and
\* clearing again changes nothing.
C9_ClearRemovesInjectedOnly ==
    \A n \in 1..Len(navs) :
        navs[n].pc = "loadHTML" =>
            /\ \A e \in Range(head) : e \notin Range(scriptsStore) /\ e.doc = 0
            /\ head = InitialHeadScripts
            /\ clear(head, scriptsStore) = head
            /\ clear(body, scriptsStore) = body

\* C9 witness: clear has just run with scripts of an earlier navigation in the
\* store
C9_Witness ==
    \E n \in 1..Len(navs) :
        /\ navs[n].pc = "loadHTML"
        /\ \E e \in Range(scriptsStore) : e.doc # n /\ navs[e.doc].pc = "done"

\* the document whose body is live: 0 for the document the router was
\* constructed in, n for the page navigation n parsed (every page served has
\* a non-empty body)
RenderedDoc == IF body = <<>> THEN 0 ELSE body[1].doc

\* the head scripts navigation n's page declares that are not initial scripts
DeclaredHeadScripts(n) ==
    LET h == parseHTML(PageOf(navs[n]), n).head
    IN  SelectSeq2(h, {e \in Range(h) : isNotInitialScript(e, initialScripts)})

EffectiveType(e) == IF e.type = "" THEN "text/javascript" ELSE e.type

\* C11: after a committed navigation, every script element of the fetched
\* page's body, nested or not, is a freshly created element at its position
\* in the live body, with the same type and the same source or text.
C11_BodyScriptsRebuilt ==
    \A n \in 1..Len(navs) :
        (navs[n].pc = "done" /\ RenderedDoc = n) =>
            LET parsed == parseHTML(PageOf(navs[n]), n).body
            IN  /\ Len(body) = Len(parsed)
                /\ \A i \in 1..Len(parsed) :
                      parsed[i].tag = "SCRIPT" =>
                          /\ body[i].tag = "SCRIPT"
                          /\ body[i].fresh
                          /\ EffectiveType(body[i]) = EffectiveType(parsed[i])
                          /\ body[i].src = parsed[i].src
                          /\ parsed[i].src = "" => body[i].text = parsed[i].text

\* C12: every history entry the router pushed carries its own URL path as
\* the url of its state payload.
C12_StateUrlIsEntryUrl ==
    \A i \in 1..Len(hist) : hist[i].state # NullState => hist[i].state = hist[i].url

\* C12 witness: the stack holds the entry pushed at construction and, above
\* it, an entry pushed by a navigation to another path
C12_Witness ==
    /\ Len(hist) >= 3
    /\ hist[2].state = hist[1].url
    /\ hist[3].state # NullState
    /\ hist[3].url # hist[2].url

\* C13, as claimed: the links of a navigation's document are wired only after
\* that navigation has pushed its history entry.
C13_WiringAfterPush ==
    \A i \in Links :
        (body[i].doc # 0 /\ body[i].listeners > 0) => navs[body[i].doc].pushed = 1

\* C13, amended: once enableSPA has returned in a navigation, which is
\* before its history entry is pushed, every link of the new body that
\* checkRoutes accepts has exactly one click listener and every other link
\* has none; until then no link of the new body has one.
C13_WiredOnceBeforePush ==
    \A i \in Links :
        body[i].doc # 0 =>
            IF navs[body[i].doc].pc \in {"pushState", "done"}
            THEN body[i].listeners =
                    (IF checkRoutes(body[i], options.routes) = "true" THEN 1 ELSE 0)
            ELSE body[i].listeners = 0

\* C13 witness: a navigation is about to push its history entry and a link
\* of its document already has its click listener
C13_Witness ==
    \E i \in Links :
        /\ body[i].doc # 0
        /\ navs[body[i].doc].pc = "pushState"
        /\ navs[body[i].doc].pushed = 0
        /\ body[i].listeners = 1

\* some route of the router is an invalid regular expression once its
\* wildcard is removed
HasMalformedRoute ==
    \E k \in 1..Len(options.routes) : InvalidRegExp(RouteRegExp(options.routes[k]))

\* C14: constructing an enabled Router with a malformed route pattern raises
\* an error from the constructor, whatever links the document holds.
C14_MalformedRejectedAtConstruction ==
    (constructed /\ options.enabled /\ HasMalformedRoute) => "constructor" \in uncaught

\* C15: no failure of the navigation pipeline escapes navigate: every
\* navigation that failed, whether in the fetch, in clear or in the link
\* wiring, went through the catch handler and was logged exactly once, and
\* the only uncaught exceptions are those of the constructor and of the
\* popstate handler itself.
C15_FailuresCaughtAndLogged ==
    /\ uncaught \subseteq {"constructor", "popstate"}
    /\ console = Cardinality({n \in 1..Len(navs) : navs[n].pc = "failed"})
    /\ \A n \in 1..Len(navs) :
          /\ "Failed" \in Range(navs[n].trail) => navs[n].pc \in {"catch", "failed"}
          /\ Finished(navs[n]) =>
                (navs[n].pc = "failed" <=> "Failed" \in Range(navs[n].trail))

\* C15 witness: a failed fetch and an exception of the link wiring, raised
\* after the swap, have both been logged
C15_Witness ==
    /\ console = 2
    /\ \E n \in 1..Len(navs), m \in 1..Len(navs) :
          /\ FetchFailed(navs[n]) /\ navs[n].pc = "failed"
          /\ navs[m].out = "ok" /\ navs[m].pc = "failed"
          /\ "Committed" \in Range(navs[m].trail)

\* C16: the result of a navigation that was superseded while in flight is
\* discarded on arrival: its callback never gets to swap the document or to
\* push an entry.  (A callback runs to completion, so a later navigation
\* that exists while it runs was requested before the fetch settled.)
C16_SupersededDiscarded ==
    \A n \in 1..Len(navs), m \in 1..Len(navs) :
        n < m => navs[n].pc \notin {"loadHTML", "runScripts", "enableSPA", "pushState"}

\* C17: within one navigation every head script of the fetched page that is
\* inserted into the live head is inserted before any body script of that
\* page is rebuilt, and scripts of the same placement keep document order.
C17_HeadBeforeBody ==
    \A n \in 1..Len(navs) :
        LET e == navs[n].effects
        IN  \A i \in 1..Len(e), j \in 1..Len(e) :
                (i < j /\ e[i].doc = n /\ e[j].doc = n) =>
                    /\ ~(e[i].parent = "BODY" /\ e[j].parent = "HEAD")
                    /\ e[i].parent = e[j].parent => e[i].k < e[j].k

\* C18: once a navigation has processed its scripts, a head script of the
\* fetched page was skipped if and only if one script of the boot-time
\* snapshot has the same identity (the same src for an external script, the
\* same text for an inline one); every other head script was appended to the
\* head and recorded in scriptsStore.
C18_SkippedIffInSnapshot ==
    \A n \in 1..Len(navs) :
        navs[n].pc \in {"enableSPA", "pushState", "done"} =>
            LET declared == parseHTML(PageOf(navs[n]), n).head
                known(sc) == \E i \in 1..Len(initialScripts) :
                                 IF sc.src # "" THEN initialScripts[i].src = sc.src
                                 ELSE initialScripts[i].text = sc.text
            IN  \A j \in 1..Len(declared) :
                    /\ known(declared[j]) <=> declared[j] \notin Range(navs[n].effects)
                    /\ ~known(declared[j]) => declared[j] \in Range(scriptsStore)

\* C19: when every fetch settles, every navigation ends, having passed
\* through Committed or through Failed, with its callback chain over; and a
\* navigation whose fetch resolved in a router that took its snapshot, on a
\* page whose links can all be matched, goes on to push its entry, whatever
\* became of the navigations before it.
C19_EveryNavigationReturnsToIdle ==
    \A n \in 1..MaxNavs :
        /\ (Len(navs) >= n) ~>
               (/\ Len(navs) >= n
                /\ Finished(navs[n])
                /\ running # n
                /\ {"Committed", "Failed"} \cap Range(navs[n].trail) # {})
        /\ (/\ Len(navs) >= n
            /\ navs[n].pc = "clear"
            /\ snapshotTaken
            /\ ~enableSPAThrows(parseHTML(PageOf(navs[n]), n).body, options.routes)) ~>
               (Len(navs) >= n /\ navs[n].pc = "done" /\ navs[n].pushed = 1)

C19_Witness ==
    /\ running = 0
    /\ \E n \in 1..Len(navs), m \in 1..Len(navs) :
          /\ n < m
          /\ navs[n].pc = "failed"
          /\ navs[m].pc = "done"
          /\ navs[m].pushed = 1

\* C20: a navigation that has ended replaced the body and title if and only
\* if it pushed a history entry; so when no navigation is under way, the
\* current history entry's url is the path of the page whose body is live.
C20_SwapAndPushTogether ==
    /\ \A n \in 1..Len(navs) :
          Finished(navs[n]) =>
              ("ExecutingScripts" \in Range(navs[n].trail) <=> navs[n].pushed = 1)
    /\ ((\A n \in 1..Len(navs) : Finished(navs[n])) /\ RenderedDoc # 0) =>
          hist[hidx].url = navs[RenderedDoc].url

====
